---- MODULE Spec2Model ----
(***************************************************************************)
(* rlox front end: the Scanner (src/src/scanner.rs) and the recursive      *)
(* descent Parser (src/src/parser.rs).                                     *)
(*                                                                         *)
(* A source text is a sequence of one-character strings (Vec<char>); the   *)
(* cursor `current` is the 0-based index of the source, so the character   *)
(* at index i is chars[i + 1].                                             *)
(***************************************************************************)
EXTENDS Integers, Sequences, FiniteSets, TLC

VARIABLES
    scanner,    \* the Scanner under scan_tokens: its fields, the local `tokens`, the outcome
    rescan,     \* a second Scanner, run after the first one (relational properties)
    parser      \* the Parser under parse / under one production called directly

vars == <<scanner, rescan, parser>>

(***************************************************************************)
(* Bounds                                                                  *)
(***************************************************************************)
MaxLen == 3          \* longest source text given to the scanner
MaxSrcLen == 2       \* longest source text that follows a comment line
MaxComment == 2      \* longest comment body

(***************************************************************************)
(* Characters                                                              *)
(***************************************************************************)
Lower == <<"a", "b", "c", "d", "e", "f", "g", "h", "i", "j", "k", "l", "m",
           "n", "o", "p", "q", "r", "s", "t", "u", "v", "w", "x", "y", "z">>
Upper == <<"A", "B", "C", "D", "E", "F", "G", "H", "I", "J", "K", "L", "M",
           "N", "O", "P", "Q", "R", "S", "T", "U", "V", "W", "X", "Y", "Z">>
DigitChars == <<"0", "1", "2", "3", "4", "5", "6", "7", "8", "9">>

\* char::is_digit(10)
IsDigit(c) == \E i \in 1..10 : DigitChars[i] = c

\* char::is_alphabetic (the letters of the model's alphabet are ASCII)
IsAlphabetic(c) == \E i \in 1..26 : Lower[i] = c \/ Upper[i] = c

\* char::to_lowercase, applied by String::to_lowercase to every character
ToLowerChar(c) ==
    IF \E i \in 1..26 : Upper[i] = c
    THEN Lower[CHOOSE i \in 1..26 : Upper[i] = c]
    ELSE c

ToLowercase(lexeme) == [i \in 1..Len(lexeme) |-> ToLowerChar(lexeme[i])]

DigitValue(c) == (CHOOSE i \in 1..10 : DigitChars[i] = c) - 1

\* str::parse::<i64> of a string of decimal digits (the empty string is an error)
RECURSIVE ParseI64(_)
ParseI64(lexeme) ==
    IF Len(lexeme) = 0 THEN 0
    ELSE 10 * ParseI64(SubSeq(lexeme, 1, Len(lexeme) - 1)) + DigitValue(lexeme[Len(lexeme)])

(***************************************************************************)
(* Tokens (src/src/token.rs)                                               *)
(***************************************************************************)
NoLiteral == [kind |-> "None", number |-> 0, string |-> <<>>]
NumberLiteral(n) == [kind |-> "Number", number |-> n, string |-> <<>>]
StringLiteral(s) == [kind |-> "String", number |-> 0, string |-> s]

\* Token::new
NewToken(token_type, lexeme, literal, line) ==
    [token_type |-> token_type, lexeme |-> lexeme, literal |-> literal, line |-> line]

\* the keyword arms of parse_identifier
Keywords ==
    { [text |-> <<"a", "n", "d">>, token_type |-> "And"],
      [text |-> <<"c", "l", "a", "s", "s">>, token_type |-> "Class"],
      [text |-> <<"e", "l", "s", "e">>, token_type |-> "Else"],
      [text |-> <<"f", "a", "l", "s", "e">>, token_type |-> "False"],
      [text |-> <<"f", "o", "r">>, token_type |-> "For"],
      [text |-> <<"f", "u", "n">>, token_type |-> "Fun"],
      [text |-> <<"i", "f">>, token_type |-> "If"],
      [text |-> <<"n", "i", "l">>, token_type |-> "Nil"],
      [text |-> <<"o", "r">>, token_type |-> "Or"],
      [text |-> <<"p", "r", "i", "n", "t">>, token_type |-> "Print"],
      [text |-> <<"r", "e", "t", "u", "r", "n">>, token_type |-> "Return"],
      [text |-> <<"s", "u", "p", "e", "r">>, token_type |-> "Super"],
      [text |-> <<"t", "h", "i", "s">>, token_type |-> "This"],
      [text |-> <<"t", "r", "u", "e">>, token_type |-> "True"],
      [text |-> <<"v", "a", "r">>, token_type |-> "Var"],
      [text |-> <<"w", "h", "i", "l", "e">>, token_type |-> "While"] }

\* the single-character arms of scan_token
SingleCharTokens ==
    { [ch |-> "(", token_type |-> "LeftParen"],
      [ch |-> ")", token_type |-> "RightParen"],
      [ch |-> "{", token_type |-> "LeftBrace"],
      [ch |-> "}", token_type |-> "RightBrace"],
      [ch |-> ",", token_type |-> "Comma"],
      [ch |-> ".", token_type |-> "Dot"],
      [ch |-> "+", token_type |-> "Plus"],
      [ch |-> "-", token_type |-> "Minus"],
      [ch |-> ";", token_type |-> "Semicolon"],
      [ch |-> "*", token_type |-> "Star"] }

\* the arms of scan_token that look one character ahead for `=`
TwoCharTokens ==
    { [ch |-> "!", one |-> "Bang", two |-> "BangEqual"],
      [ch |-> "=", one |-> "Equal", two |-> "EqualEqual"],
      [ch |-> ">", one |-> "Greater", two |-> "GreaterEqual"],
      [ch |-> "<", one |-> "Less", two |-> "LessEqual"] }

(***************************************************************************)
(* Scanner (src/src/scanner.rs)                                            *)
(*                                                                         *)
(* A scanner value s carries the struct's fields chars, current, line,     *)
(* the character `ch` returned by the last advance/back, and `panic`,      *)
(* set when chars is indexed outside 0..len-1 (index out of bounds).       *)
(* `starts` is a history of the scan: for every token pushed, the cursor   *)
(* at the start of the scan_token call that produced it, i.e. the index of *)
(* the token's first character (the code keeps no such field).             *)
(***************************************************************************)

\* Scanner::new
NewScanner(source) ==
    [chars |-> source, current |-> 0, line |-> 1, ch |-> "", panic |-> FALSE,
     tokens |-> <<>>, starts |-> <<>>, pc |-> "scanning", result |-> "none",
     message |-> "", character |-> ""]

InBounds(s, index) == index >= 0 /\ index < Len(s.chars)

\* Scanner::is_at_end
IsAtEnd(s, offset) == Len(s.chars) = offset

\* Scanner::advance: the cursor is replaced first, then chars[current] is read
Advance(s) ==
    IF InBounds(s, s.current)
    THEN [s EXCEPT !.current = @ + 1, !.ch = s.chars[s.current + 1]]
    ELSE [s EXCEPT !.current = @ + 1, !.panic = TRUE]

\* Scanner::back: the cursor is replaced first, then chars[old current] is read
Back(s) ==
    IF InBounds(s, s.current)
    THEN [s EXCEPT !.current = @ - 1, !.ch = s.chars[s.current + 1]]
    ELSE [s EXCEPT !.current = @ - 1, !.panic = TRUE]

\* Scanner::matches_at over Scanner::peek, for a one-character `expected`
MatchesAt(s, expected, offset) ==
    IF offset >= Len(s.chars) THEN FALSE ELSE s.chars[offset + 1] = expected

\* Results of scan_token: Result<Option<Token>>, or the abort of the scan.
\* An error is its message and the character or lexeme formatted into it.
SomeToken(s, token) ==
    [s |-> s, kind |-> "Some", token |-> token, message |-> "", character |-> ""]
NoToken(s) ==
    [s |-> s, kind |-> "None", token |-> NewToken("", <<>>, NoLiteral, 0),
     message |-> "", character |-> ""]
ScanErr(s, message, character) ==
    [s |-> s, kind |-> "Err", token |-> NewToken("", <<>>, NoLiteral, 0),
     message |-> message, character |-> character]
Panicked(s) ==
    [s |-> s, kind |-> "Panic", token |-> NewToken("", <<>>, NoLiteral, 0),
     message |-> "index out of bounds", character |-> ""]

\* mutant of skip_inline_comment: the comment is not consumed
SkipInlineCommentNoSkip(s) == s

\* Scanner::skip_inline_comment
RECURSIVE SkipLoop(_)
SkipLoop(s) ==
    LET a == Advance(s) IN
    IF a.panic THEN a
    ELSE IF a.ch = "\n" \/ IsAtEnd(a, a.current) THEN a
    ELSE SkipLoop(a)

SkipInlineComment(s) == IF IsAtEnd(s, s.current) THEN s ELSE SkipLoop(s)

\* Scanner::parse_string
RECURSIVE StringLoop(_, _)
StringLoop(s, lexeme) ==
    LET a == Advance(s) IN
    IF a.panic THEN Panicked(a)
    ELSE IF IsAtEnd(a, a.current) THEN ScanErr(a, "Unterminated string", "")
    ELSE IF a.ch = "\"" THEN SomeToken(a, NewToken("String", lexeme, StringLiteral(lexeme), a.line))
    ELSE StringLoop([a EXCEPT !.line = IF a.ch = "\n" THEN @ + 1 ELSE @], Append(lexeme, a.ch))

ParseString(s) == StringLoop(s, <<>>)

\* the loop of parse_number (is_digit) and of parse_identifier (is_alphabetic):
\* returns the scanner and the lexeme collected
RECURSIVE RunLoop(_, _, _)
RunLoop(s, lexeme, digits) ==
    LET a == Advance(s) IN
    IF a.panic THEN [s |-> a, lexeme |-> lexeme]
    ELSE IF IsAtEnd(a, a.current) THEN [s |-> a, lexeme |-> lexeme]
    ELSE IF ~(IF digits THEN IsDigit(a.ch) ELSE IsAlphabetic(a.ch))
         THEN [s |-> Back(a), lexeme |-> lexeme]
    ELSE RunLoop(a, Append(lexeme, a.ch), digits)

\* Scanner::parse_number
ParseNumber(s) ==
    LET b == Back(s) IN
    IF b.panic THEN Panicked(b)
    ELSE LET r == RunLoop(b, <<>>, TRUE) IN
         IF r.s.panic THEN Panicked(r.s)
         ELSE IF Len(r.lexeme) = 0 THEN ScanErr(r.s, "Could not parse number", "")
         ELSE SomeToken(r.s, NewToken("Number", r.lexeme,
                                      NumberLiteral(ParseI64(r.lexeme)), r.s.line))

\* Scanner::parse_identifier
ParseIdentifier(s) ==
    LET b == Back(s) IN
    IF b.panic THEN Panicked(b)
    ELSE LET r == RunLoop(b, <<>>, FALSE) IN
         IF r.s.panic THEN Panicked(r.s)
         ELSE IF \E k \in Keywords : k.text = ToLowercase(r.lexeme)
         THEN SomeToken(r.s, NewToken(
                  (CHOOSE k \in Keywords : k.text = ToLowercase(r.lexeme)).token_type,
                  r.lexeme, NoLiteral, r.s.line))
         ELSE SomeToken(r.s, NewToken("Identifier", r.lexeme, NoLiteral, r.s.line))

\* mutant of the two-character arms: no lookahead, always the one-character token
ScanOperatorNoLookahead(a, arm) ==
    [s |-> a, kind |-> "Some", token |-> [token_type |-> arm.one, lexeme |-> <<a.ch>>,
     literal |-> [kind |-> "None", number |-> 0, string |-> <<>>], line |-> a.line],
     message |-> "", character |-> ""]

\* the arms `!`, `=`, `>`, `<` of scan_token; a is the scanner after the first advance
ScanOperator(a, arm) ==
    LET next_pos == a.current IN
    IF ~IsAtEnd(a, next_pos) /\ MatchesAt(a, "=", next_pos)
    THEN LET a2 == Advance(a) IN
         IF a2.panic THEN Panicked(a2)
         ELSE SomeToken(a2, NewToken(arm.two, <<a.ch>>, NoLiteral, a2.line))
    ELSE SomeToken(a, NewToken(arm.one, <<a.ch>>, NoLiteral, a.line))

\* the arm `/` of scan_token
ScanSlash(a) ==
    LET next_pos == a.current IN
    IF ~IsAtEnd(a, next_pos) /\ MatchesAt(a, "/", next_pos)
    THEN LET c == SkipInlineComment(a) IN IF c.panic THEN Panicked(c) ELSE NoToken(c)
    ELSE SomeToken(a, NewToken("Slash", <<a.ch>>, NoLiteral, a.line))

\* Scanner::scan_token
ScanToken(s) ==
    LET a == Advance(s) IN
    IF a.panic THEN Panicked(a)
    ELSE IF a.ch \in {" ", "\r", "\t"} THEN NoToken(a)
    ELSE IF a.ch = "\n" THEN NoToken([a EXCEPT !.line = @ + 1])
    ELSE IF \E t \in SingleCharTokens : t.ch = a.ch
         THEN SomeToken(a, NewToken((CHOOSE t \in SingleCharTokens : t.ch = a.ch).token_type,
                                    <<a.ch>>, NoLiteral, a.line))
    ELSE IF \E t \in TwoCharTokens : t.ch = a.ch
         THEN ScanOperator(a, CHOOSE t \in TwoCharTokens : t.ch = a.ch)
    ELSE IF a.ch = "/" THEN ScanSlash(a)
    ELSE IF a.ch = "\"" THEN ParseString(a)
    ELSE IF IsDigit(a.ch) THEN ParseNumber(a)
    ELSE IF IsAlphabetic(a.ch) THEN ParseIdentifier(a)
    ELSE ScanErr(a, "Unexpected token", a.ch)

\* one iteration of the loop of scan_tokens that calls scan_token
ScanStep(s) ==
    LET r == ScanToken(s) IN
    CASE r.kind = "Some" -> [r.s EXCEPT !.tokens = Append(@, r.token),
                                        !.starts = Append(@, s.current)]
      [] r.kind = "None" -> r.s
      [] r.kind = "Err" -> [r.s EXCEPT !.pc = "done", !.result = "err",
                                       !.message = r.message, !.character = r.character]
      [] r.kind = "Panic" -> [r.s EXCEPT !.pc = "done", !.result = "panic", !.message = r.message]

\* mutant of the exit of scan_tokens: Ok(tokens) without the Eof token
ScanFinishNoEof(s) == [s EXCEPT !.pc = "done", !.result = "ok"]

\* the exit of the loop of scan_tokens: push Eof, return Ok(tokens)
ScanFinish(s) ==
    [s EXCEPT !.tokens = Append(@, NewToken("Eof", <<>>, NoLiteral, s.line)),
              !.starts = Append(@, s.current),
              !.pc = "done", !.result = "ok"]

(***************************************************************************)
(* Source texts                                                            *)
(***************************************************************************)
Alphabet == {" ", "\n", ";", ".", "!", "=", "<", ">", "/", "\"", "4", "o", "R", "_"}

SeqsUpTo(S, n) == UNION {[1..k -> S] : k \in 0..n}

Sources == SeqsUpTo(Alphabet, MaxLen)

\* a Parser that is not running
IdleParser == [pc |-> "idle"]

(***************************************************************************)
(* Specification Spec: scan_tokens on every source text                    *)
(***************************************************************************)
Init ==
    /\ scanner \in {NewScanner(source) : source \in Sources}
    /\ rescan = NewScanner(<<>>)
    /\ parser = IdleParser

\* scan_tokens: one iteration of the loop
ScanTokenStep ==
    /\ scanner.pc = "scanning"
    /\ ~IsAtEnd(scanner, scanner.current)
    /\ scanner' = ScanStep(scanner)
    /\ UNCHANGED <<rescan, parser>>

\* scan_tokens: the loop ends at the end of the input
ScanTokensReturn ==
    /\ scanner.pc = "scanning"
    /\ IsAtEnd(scanner, scanner.current)
    /\ scanner' = ScanFinish(scanner)
    /\ UNCHANGED <<rescan, parser>>

Next == ScanTokenStep \/ ScanTokensReturn

Spec == Init /\ [][Next]_vars

TokenTypes(tokens) == [i \in 1..Len(tokens) |-> tokens[i].token_type]
Lexemes(tokens) == [i \in 1..Len(tokens) |-> tokens[i].lexeme]

\* C1: whenever scan_tokens returns Ok, the returned sequence ends with an Eof
\* token and holds no Eof token at any earlier position.
C1_EofTerminated ==
    scanner.result = "ok" =>
        /\ Len(scanner.tokens) >= 1
        /\ scanner.tokens[Len(scanner.tokens)].token_type = "Eof"
        /\ \A i \in 1..(Len(scanner.tokens) - 1) : scanner.tokens[i].token_type # "Eof"

C1_Witness ==
    /\ scanner.result = "ok"
    /\ Len(scanner.tokens) = 3
    /\ scanner.tokens[3].token_type = "Eof"

\* C2: in every reachable state of a scan the cursor is within 0..len and no
\* character has been read at an index outside 0..len-1 (the scan does not abort).
C2_CursorInBounds ==
    /\ scanner.current >= 0
    /\ scanner.current <= Len(scanner.chars)
    /\ ~scanner.panic
    /\ scanner.result # "panic"

\* C9: a scan step that starts at `!`, `=`, `>` or `<` consumes two characters and
\* appends exactly one two-character token when the next character is `=`, and
\* otherwise consumes one character and appends the one-character token.
C9_OperatorMunch ==
    [][ ( /\ scanner.pc = "scanning"
          /\ ~IsAtEnd(scanner, scanner.current)
          /\ \E t \in TwoCharTokens : t.ch = scanner.chars[scanner.current + 1] )
        =>
        LET t == CHOOSE t \in TwoCharTokens : t.ch = scanner.chars[scanner.current + 1]
            followed == /\ scanner.current + 2 <= Len(scanner.chars)
                        /\ scanner.chars[scanner.current + 2] = "="
            n == Len(scanner.tokens)
        IN  /\ scanner'.result \notin {"err", "panic"}
            /\ scanner'.current = scanner.current + (IF followed THEN 2 ELSE 1)
            /\ Len(scanner'.tokens) = n + 1
            /\ SubSeq(scanner'.tokens, 1, n) = scanner.tokens
            /\ scanner'.tokens[n + 1].token_type = (IF followed THEN t.two ELSE t.one)
      ]_vars

C9_Witness ==
    /\ scanner.chars = <<"!", "=">>
    /\ scanner.result = "ok"
    /\ TokenTypes(scanner.tokens) = <<"BangEqual", "Eof">>

(***************************************************************************)
(* Specification SpecComment: scan "//" + c + "\n" + s, then scan s alone  *)
(***************************************************************************)
CommentAlphabet == {" ", "/", "\"", "o"}

CommentBodies == SeqsUpTo(CommentAlphabet, MaxComment)

InitComment ==
    /\ \E s \in SeqsUpTo(Alphabet, MaxSrcLen), c \in CommentBodies :
          /\ scanner = NewScanner(<<"/", "/">> \o c \o <<"\n">> \o s)
          /\ rescan = NewScanner(s)
    /\ parser = IdleParser

\* scan_tokens of the second scanner: one iteration of the loop
RescanTokenStep ==
    /\ scanner.pc = "done"
    /\ rescan.pc = "scanning"
    /\ ~IsAtEnd(rescan, rescan.current)
    /\ rescan' = ScanStep(rescan)
    /\ UNCHANGED <<scanner, parser>>

\* scan_tokens of the second scanner: the loop ends at the end of the input
RescanTokensReturn ==
    /\ scanner.pc = "done"
    /\ rescan.pc = "scanning"
    /\ IsAtEnd(rescan, rescan.current)
    /\ rescan' = ScanFinish(rescan)
    /\ UNCHANGED <<scanner, parser>>

NextComment == ScanTokenStep \/ ScanTokensReturn \/ RescanTokenStep \/ RescanTokensReturn

SpecComment == InitComment /\ [][NextComment]_vars

\* what a caller of scan_tokens observes: Ok with the token kinds and lexemes,
\* the error message, or the abort
Outcome(s) ==
    [result |-> s.result, message |-> s.message, character |-> s.character,
     token_types |-> IF s.result = "ok" THEN TokenTypes(s.tokens) ELSE <<>>,
     lexemes |-> IF s.result = "ok" THEN Lexemes(s.tokens) ELSE <<>>]

\* C10: scanning "//" + c + "\n" + s has the same outcome as scanning s alone:
\* the same token kinds and lexemes (or the same failure).
C10_CommentElided ==
    (scanner.pc = "done" /\ rescan.pc = "done") => Outcome(scanner) = Outcome(rescan)

C10_Witness ==
    /\ scanner.pc = "done"
    /\ rescan.pc = "done"
    /\ rescan.result = "ok"
    /\ Len(rescan.tokens) = 3
    /\ Len(scanner.chars) = Len(rescan.chars) + 5


(***************************************************************************)
(* Parser (src/src/parser.rs)                                              *)
(*                                                                         *)
(* A parser value p carries the struct's fields tokens and position (the   *)
(* 0-based index of the current token, tokens[position] = p.tokens[        *)
(* p.position + 1]).  Every production returns a result: the parser after  *)
(* the call, st = "Ok" with the node in val, st = "Err" with the error in  *)
(* err, or st = "Abort" when the call never returns to its caller: todo!(),*)
(* an index out of bounds, or "StackOverflow" when a production calls      *)
(* itself again with the parser in the state its own call started in (the  *)
(* code is deterministic, so the nested call repeats it without end).      *)
(***************************************************************************)
MaxArguments == 255

\* a Token as the parser reads it: its TokenValue variant and the variant's payload
Token(value, payload) == [value |-> value, payload |-> payload]

NoValue == [tag |-> "None"]
NoError == [kind |-> "None", message |-> "", token |-> Token("", "")]

\* RuntimeError::ParseError(message, token)
ParseError(message, token) == [kind |-> "ParseError", message |-> message, token |-> token]
\* RuntimeError::general_error(message)
GeneralError(message) == [kind |-> "GeneralError", message |-> message, token |-> Token("", "")]
\* RuntimeError::InvalidArgumentTarget(message)
InvalidArgumentTarget(message) ==
    [kind |-> "InvalidArgumentTarget", message |-> message, token |-> Token("", "")]

Ok(p, val) == [p |-> p, st |-> "Ok", val |-> val, err |-> NoError]
Err(p, err) == [p |-> p, st |-> "Err", val |-> NoValue, err |-> err]
Abort(p, why) ==
    [p |-> p, st |-> "Abort", val |-> NoValue,
     err |-> [kind |-> why, message |-> "", token |-> Token("", "")]]

\* enum Expr and enum Literal
LiteralExpr(kind, payload) == [tag |-> "Literal", kind |-> kind, payload |-> payload]
ThisExpr(keyword) == [tag |-> "This", keyword |-> keyword]
VariableExpr(name) == [tag |-> "Variable", name |-> name]
GroupingExpr(group) == [tag |-> "Grouping", group |-> group]
SuperExpr(keyword, method) == [tag |-> "Super", keyword |-> keyword, method |-> method]
UnaryExpr(operator, right) == [tag |-> "Unary", operator |-> operator, right |-> right]
AssignExpr(name, value) == [tag |-> "Assign", name |-> name, value |-> value]
SetExpr(object, name, value) ==
    [tag |-> "Set", object |-> object, name |-> name, value |-> value]

\* mutant of the Get node of call: the new access replaces the previous one
GetExprFlat(name, object) ==
    [tag |-> "Get", name |-> name,
     object |-> IF object.tag = "Get" THEN object.object ELSE object]

\* Expr::Get { name, object } as call builds it
GetExpr(name, object) == [tag |-> "Get", name |-> name, object |-> object]

\* enum Stmt
ExpressionStmt(expr) == [tag |-> "Expression", expr |-> expr]
BlockStmt(statements) == [tag |-> "Block", statements |-> statements]

\* Parser::new, with the locals of parse and what the caller gets back
NewParser(tokens) ==
    [tokens |-> tokens, position |-> 0, pc |-> "new", entry |-> "",
     statements |-> <<>>, errors |-> <<>>,
     result |-> "none", value |-> NoValue, error |-> NoError]

\* Parser::current
ParserCurrent(p) == p.tokens[p.position + 1]

\* Parser::peek is Ok: the token after the current one exists
ParserPeekOk(p) == ~(p.position + 1 >= Len(p.tokens))

\* Parser::peek, when it is Ok
ParserPeek(p) == p.tokens[p.position + 2]

\* Parser::is_at_end
ParserIsAtEnd(p) == ~ParserPeekOk(p)

\* Parser::advance
ParserAdvance(p) == IF ~ParserIsAtEnd(p) THEN [p EXCEPT !.position = @ + 1] ELSE p

\* Parser::is_match
IsMatch(p, types) == ParserPeekOk(p) /\ ParserPeek(p).value \in types

\* Parser::consume
Consume(p, expected, message) ==
    IF ~ParserPeekOk(p) THEN Err(p, GeneralError("Unexpected end of token stream"))
    ELSE IF ParserPeek(p).value = expected THEN Ok(ParserAdvance(p), ParserPeek(p))
    ELSE Err(p, ParseError(message, ParserPeek(p)))

\* Parser::consume_identifier
ConsumeIdentifier(p, message) ==
    IF ~ParserPeekOk(p) THEN Err(p, GeneralError("Unexpected end of token stream"))
    ELSE IF ParserPeek(p).value = "Identifier" THEN Ok(ParserAdvance(p), ParserPeek(p))
    ELSE Err(p, ParseError(message, ParserPeek(p)))

\* the operators of the binary levels logic_or, logic_and, equality, comparison, term, factor
LevelOperators ==
    << {"Or"}, {"And"}, {"BangEqual", "EqualEqual"},
       {"Greater", "GreaterEqual", "Less", "LessEqual"},
       {"Minus", "Plus"}, {"Star", "Slash"} >>

LevelTags == <<"Logical", "Logical", "Equality", "Comparison", "Term", "Factor">>

\* the node a binary level folds: Logical keeps the previous expression as `right`
\* and the new operand as `left`; the other levels keep the operator and the new operand
FoldExpr(level, expr, operator, operand) ==
    IF level <= 2
    THEN [tag |-> "Logical", right |-> expr, operator |-> operator, left |-> operand]
    ELSE [tag |-> LevelTags[level], operator |-> operator, right |-> operand]

\* `let r = value` of the Rust code: value is computed once and Body reads the result
With(value, Body(_)) == CHOOSE out \in {Body(r) : r \in {value}} : TRUE

RECURSIVE Declaration(_), Statement(_), Block(_), BlockLoop(_, _),
          ExpressionStatement(_), Expression(_), Assignment(_),
          BinaryLevel(_, _), LoopsFrom(_, _, _), BinaryLoop(_, _, _), Operand(_, _),
          Unary(_), Call(_), CallLoop(_, _), ArgumentsLoop(_, _),
          Primary(_)

\* Parser::primary
Primary(p) ==
    IF p.position >= Len(p.tokens) THEN Abort(p, "IndexOutOfBounds")
    ELSE
    LET token == ParserCurrent(p) IN
    CASE token.value = "True" -> Ok(p, LiteralExpr("True", ""))
      [] token.value = "False" -> Ok(p, LiteralExpr("False", ""))
      [] token.value = "Nil" -> Ok(p, LiteralExpr("Nil", ""))
      [] token.value = "This" -> Ok(p, ThisExpr(token))
      [] token.value = "Number" -> Ok(p, LiteralExpr("Number", token.payload))
      [] token.value = "String" -> Ok(p, LiteralExpr("String", token.payload))
      [] token.value = "Identifier" -> Ok(p, VariableExpr(token))
      [] token.value = "LeftParen" ->
            With(ParserAdvance(p), LAMBDA a :
              IF a = p THEN Abort(p, "StackOverflow")
              ELSE
              With(Expression(a), LAMBDA r :
                IF r.st # "Ok" THEN r
                ELSE With(Consume(r.p, "RightParen", "Expected ) after expression"), LAMBDA c :
                       IF c.st # "Ok" THEN c ELSE Ok(c.p, GroupingExpr(r.val)))))
      [] token.value = "Super" ->
            With(Consume(p, "Dot", "Expected . after super"), LAMBDA c :
              IF c.st # "Ok" THEN c
              ELSE With(ConsumeIdentifier(c.p, "Expected superclass method name"), LAMBDA m :
                     IF m.st # "Ok" THEN m ELSE Ok(m.p, SuperExpr(token, m.val))))
      [] OTHER -> Err(p, ParseError("Expected expression", token))

\* Parser::call: the inner loop that collects the arguments after `(`.  An argument
\* parsed without moving the parser is parsed again, in the same state, by every later
\* iteration, so the vector grows until it holds more than MaxArguments
ArgumentsLoop(p, arguments) ==
    IF Len(arguments) > MaxArguments THEN Err(p, GeneralError("Too many arguments"))
    ELSE With(Assignment(p), LAMBDA r :
           IF r.st # "Ok" THEN r
           ELSE IF r.p = p THEN Err(p, GeneralError("Too many arguments"))
           ELSE With(Append(arguments, r.val), LAMBDA pushed : ArgumentsLoop(r.p, pushed)))

\* Parser::call: the outer loop over `(` and `.`
CallLoop(p, expr) ==
    IF IsMatch(p, {"LeftParen"})
    THEN With(ParserAdvance(p), LAMBDA a : ArgumentsLoop(a, <<>>))
    ELSE IF IsMatch(p, {"Dot"})
    THEN With(Consume(p, "Dot", "Expected ."), LAMBDA c :
           IF c.st # "Ok" THEN c
           ELSE With(ConsumeIdentifier(c.p, "Expected property name after ."), LAMBDA n :
                  IF n.st # "Ok" THEN n
                  ELSE With(GetExpr(n.val, expr), LAMBDA get : CallLoop(n.p, get))))
    ELSE Ok(p, expr)

\* Parser::call
Call(p) ==
    With(Primary(p), LAMBDA r :
      IF r.st # "Ok" THEN r ELSE CallLoop(r.p, r.val))

\* Parser::unary
Unary(p) ==
    IF IsMatch(p, {"Bang", "Minus"})
    THEN With(ParserAdvance(p), LAMBDA a :
         With(Unary(a), LAMBDA r :
           IF r.st # "Ok" THEN r ELSE Ok(r.p, UnaryExpr(ParserCurrent(a), r.val))))
    ELSE Call(p)

\* the operand of a binary level: the next level, unary below factor
Operand(level, p) == IF level = 6 THEN Unary(p) ELSE BinaryLevel(level + 1, p)

\* the while loop of logic_or, logic_and, equality, comparison, term, factor
BinaryLoop(level, p, expr) ==
    IF IsMatch(p, LevelOperators[level])
    THEN With(ParserAdvance(p), LAMBDA a :
         With(Operand(level, a), LAMBDA r :
           IF r.st # "Ok" THEN r
           ELSE With(FoldExpr(level, expr, ParserCurrent(a), r.val), LAMBDA folded :
                  BinaryLoop(level, r.p, folded))))
    ELSE Ok(p, expr)

\* the while loops of the levels `inner` down to `level`, innermost first, on the
\* result r of the level below: what each level does once its first call returned
LoopsFrom(inner, level, r) ==
    IF r.st # "Ok" THEN r
    ELSE With(BinaryLoop(inner, r.p, r.val), LAMBDA looped :
           IF inner = level THEN looped ELSE LoopsFrom(inner - 1, level, looped))

\* Parser::logic_or (1), logic_and (2), equality (3), comparison (4), term (5), factor (6):
\* every level first calls the next one, down to unary, and then runs its loop
BinaryLevel(level, p) ==
    With(Unary(p), LAMBDA r : LoopsFrom(6, level, r))

\* Parser::assignment
Assignment(p) ==
    With(BinaryLevel(1, p), LAMBDA r :
      IF r.st # "Ok" THEN r
      ELSE IF IsMatch(r.p, {"Equal"})
      THEN IF r.p = p THEN Abort(r.p, "StackOverflow")
           ELSE
           With(Assignment(r.p), LAMBDA v :
             IF v.st # "Ok" THEN v
             ELSE CASE r.val.tag = "Variable" -> Ok(v.p, AssignExpr(r.val.name, v.val))
                    [] r.val.tag = "Get" -> Ok(v.p, SetExpr(r.val.object, r.val.name, v.val))
                    [] OTHER -> Err(v.p, InvalidArgumentTarget("todo")))
      ELSE r)

\* Parser::expression
Expression(p) == Assignment(p)

\* Parser::expression_statement
ExpressionStatement(p) ==
    With(Expression(p), LAMBDA r :
      IF r.st # "Ok" THEN r
      ELSE With(Consume(r.p, "Semicolon", "Expected ; after expression"), LAMBDA c :
             IF c.st # "Ok" THEN c ELSE Ok(c.p, ExpressionStmt(r.val))))

\* Parser::block: the while loop
BlockLoop(p, statements) ==
    IF ~IsMatch(p, {"RightBrace"})
    THEN IF ParserIsAtEnd(p) /\ ParserCurrent(p).value = "LeftBrace"
         THEN Abort(p, "StackOverflow")
         ELSE
         With(Declaration(p), LAMBDA r :
           IF r.st # "Ok" THEN r
           ELSE With(Append(statements, r.val), LAMBDA pushed : BlockLoop(r.p, pushed)))
    ELSE With(Consume(p, "RightBrace", "Expected } after block"), LAMBDA c :
           IF c.st # "Ok" THEN c ELSE Ok(c.p, BlockStmt(statements)))

\* Parser::block
Block(p) == BlockLoop(p, <<>>)

\* Parser::statement
Statement(p) ==
    LET value == ParserCurrent(p).value IN
    IF value \in {"For", "If", "Print", "Return", "While"} THEN Abort(p, "Todo")
    ELSE IF value = "LeftBrace" THEN Block(p)
    ELSE ExpressionStatement(p)

\* Parser::declaration
Declaration(p) ==
    With(ParserAdvance(p), LAMBDA a :
      IF ParserCurrent(a).value \in {"Class", "Fun", "Var"} THEN Abort(a, "Todo")
      ELSE Statement(a))

\* Parser::parse: one iteration of the loop (declaration, is_at_end, advance)
ParseIteration(p) ==
    With(Declaration(p), LAMBDA r :
      IF r.st = "Abort" THEN [r.p EXCEPT !.pc = "done", !.result = "Abort", !.error = r.err]
      ELSE With(IF r.st = "Ok"
                THEN [r.p EXCEPT !.statements = Append(@, r.val)]
                ELSE [r.p EXCEPT !.errors = Append(@, r.err)], LAMBDA q :
             IF ParserIsAtEnd(q) THEN [q EXCEPT !.pc = "return"] ELSE ParserAdvance(q)))

\* Parser::parse: what is returned after the loop
ParseResult(p) ==
    IF p.errors = <<>>
    THEN [p EXCEPT !.pc = "done", !.result = "Ok", !.value = p.statements]
    ELSE [p EXCEPT !.pc = "done", !.result = "Err",
                   !.error = GeneralError("Errors occurred")]

\* a production called directly on a new Parser
CallResult(result, entry) ==
    With(result, LAMBDA r :
      [r.p EXCEPT !.pc = "done", !.entry = entry, !.result = r.st,
                  !.value = r.val, !.error = r.err])

(***************************************************************************)
(* Token sequences                                                         *)
(***************************************************************************)
MaxTokens == 3       \* longest arbitrary token sequence before Eof
MaxStmts == 2        \* most statements of a well-formed program
MaxAccesses == 2     \* most `.name` accesses after a primary

Ident(name) == Token("Identifier", name)
Number(n) == Token("Number", n)
Punct(value) == Token(value, "")
EofToken == Token("Eof", "")

ParserAlphabet ==
    { Ident("a"), Number("1"), Punct("Dot"), Punct("Semicolon"), Punct("Equal"),
      Punct("Plus"), Punct("Star"), Punct("Minus"), Punct("RightParen"),
      Punct("LeftBrace"), Punct("RightBrace"), Punct("Var") }

ArbitraryTokens == {raw \o <<EofToken>> : raw \in SeqsUpTo(ParserAlphabet, MaxTokens)}

\* well-formed statements and the node the grammar gives each:  1;  a.b;  { 1; }  (a);
WellFormed ==
    { [tokens |-> <<Number("1"), Punct("Semicolon")>>,
       stmt |-> ExpressionStmt(LiteralExpr("Number", "1"))],
      [tokens |-> <<Ident("a"), Punct("Dot"), Ident("b"), Punct("Semicolon")>>,
       stmt |-> ExpressionStmt(GetExpr(Ident("b"), VariableExpr(Ident("a"))))],
      [tokens |-> <<Punct("LeftBrace"), Number("1"), Punct("Semicolon"), Punct("RightBrace")>>,
       stmt |-> BlockStmt(<<ExpressionStmt(LiteralExpr("Number", "1"))>>)],
      [tokens |-> <<Punct("LeftParen"), Ident("a"), Punct("RightParen"), Punct("Semicolon")>>,
       stmt |-> ExpressionStmt(GroupingExpr(VariableExpr(Ident("a"))))] }

\* malformed statements:  1 + ;   ( 1 ;
Malformed ==
    { <<Number("1"), Punct("Plus"), Punct("Semicolon")>>,
      <<Punct("LeftParen"), Number("1"), Punct("Semicolon")>> }

\* programs of n well-formed statements: the tokens before Eof and the statements
RECURSIVE Programs(_)
Programs(n) ==
    IF n = 0 THEN {[tokens |-> <<>>, stmts |-> <<>>]}
    ELSE {[tokens |-> b.tokens \o w.tokens, stmts |-> Append(b.stmts, w.stmt)] :
            b \in Programs(n - 1), w \in WellFormed}

ProgramTokens == UNION {{g.tokens \o <<EofToken>> : g \in Programs(n)} : n \in 0..MaxStmts}

\* two malformed statements separated by a well-formed one
TwoErrorTokens ==
    {m1 \o w.tokens \o m2 \o <<EofToken>> : m1 \in Malformed, w \in WellFormed, m2 \in Malformed}

\*  1 + 2 * 3
TermFactorTokens ==
    <<Number("1"), Punct("Plus"), Number("2"), Punct("Star"), Number("3"), EofToken>>

\*  1 = 2 ;
LiteralAssignTokens ==
    <<Number("1"), Punct("Equal"), Number("2"), Punct("Semicolon"), EofToken>>

\* a primary followed by `.name` accesses and `;`
RECURSIVE Accesses(_)
Accesses(names) ==
    IF names = <<>> THEN <<>>
    ELSE <<Punct("Dot"), Ident(names[1])>> \o Accesses(Tail(names))

AccessPrimaries == {Ident("a"), Number("1")}
AccessNames == SeqsUpTo({"b", "c"}, MaxAccesses)

AccessTokens(primary, names) ==
    <<primary>> \o Accesses(names) \o <<Punct("Semicolon"), EofToken>>

AccessChainTokens == {AccessTokens(primary, names) : primary \in AccessPrimaries, names \in AccessNames}

\* parentheses: a call's argument list and nested groupings
\*  a ( 1 ) ;    a ( 1 ) . b ;    ( ( 1 ) ) ;    a = ( 1 ) ;
ParenTokens ==
    { <<Ident("a"), Punct("LeftParen"), Number("1"), Punct("RightParen"),
        Punct("Semicolon"), EofToken>>,
      <<Ident("a"), Punct("LeftParen"), Number("1"), Punct("RightParen"),
        Punct("Dot"), Ident("b"), Punct("Semicolon"), EofToken>>,
      <<Punct("LeftParen"), Punct("LeftParen"), Number("1"), Punct("RightParen"),
        Punct("RightParen"), Punct("Semicolon"), EofToken>>,
      <<Ident("a"), Punct("Equal"), Punct("LeftParen"), Number("1"), Punct("RightParen"),
        Punct("Semicolon"), EofToken>> }

\* a malformed statement whose `;` lies some tokens after the point of failure, then a
\* well-formed one:  a a a ; 1 ;   and   1 + + 1 ; 1 ;
ResyncTokens ==
    { <<Ident("a"), Ident("a"), Ident("a"), Punct("Semicolon"),
        Number("1"), Punct("Semicolon"), EofToken>>,
      <<Number("1"), Punct("Plus"), Punct("Plus"), Number("1"), Punct("Semicolon"),
        Number("1"), Punct("Semicolon"), EofToken>> }

ParserInputs ==
    {<<>>} \cup ArbitraryTokens \cup ProgramTokens \cup TwoErrorTokens
           \cup {TermFactorTokens, LiteralAssignTokens} \cup AccessChainTokens
           \cup ParenTokens \cup ResyncTokens

(***************************************************************************)
(* Specification SpecParser: a new Parser on a token sequence, then parse, *)
(* or one production called on the new Parser                              *)
(***************************************************************************)
InitParser ==
    /\ scanner = NewScanner(<<>>)
    /\ rescan = NewScanner(<<>>)
    /\ parser \in {NewParser(tokens) : tokens \in ParserInputs}

\* Parser::parse: entry; an empty token vector returns Ok at once
ParseEnter ==
    /\ parser.pc = "new"
    /\ parser' = IF parser.tokens = <<>>
                 THEN [parser EXCEPT !.pc = "done", !.entry = "parse", !.result = "Ok",
                                     !.value = <<>>]
                 ELSE [parser EXCEPT !.pc = "loop", !.entry = "parse"]
    /\ UNCHANGED <<scanner, rescan>>

\* Parser::parse: one iteration of the loop
ParseDeclaration ==
    /\ parser.pc = "loop"
    /\ parser' = ParseIteration(parser)
    /\ UNCHANGED <<scanner, rescan>>

\* Parser::parse: the return after the loop
ParseReturn ==
    /\ parser.pc = "return"
    /\ parser' = ParseResult(parser)
    /\ UNCHANGED <<scanner, rescan>>

\* Parser::expression called on the new Parser
CallExpression ==
    /\ parser.pc = "new"
    /\ parser' = CallResult(Expression(parser), "expression")
    /\ UNCHANGED <<scanner, rescan>>

\* Parser::expression_statement called on the new Parser
CallExpressionStatement ==
    /\ parser.pc = "new"
    /\ parser' = CallResult(ExpressionStatement(parser), "expression_statement")
    /\ UNCHANGED <<scanner, rescan>>

NextParser ==
    \/ ParseEnter \/ ParseDeclaration \/ ParseReturn
    \/ CallExpression \/ CallExpressionStatement

SpecParser == InitParser /\ [][NextParser]_vars

(***************************************************************************)
(* Properties of the parser                                                *)
(***************************************************************************)
\* the call has returned to its caller or ended the process
ParserDone(entry) == parser.pc = "done" /\ parser.entry = entry

\* the errors the caller of parse receives: Result carries one RuntimeError
ReportedErrors(p) == IF p.result = "Err" THEN <<p.error>> ELSE <<>>

\* C3: parse of an Eof-terminated sequence of n >= 0 well-formed statements returns Ok
\* with exactly these n statements in source order, the first one parsed from the first
\* token; [Eof] parses to the empty program.
C3_WellFormedParses ==
    (ParserDone("parse") /\ parser.tokens \in ProgramTokens)
        => /\ parser.result = "Ok"
           /\ \E n \in 0..MaxStmts : \E g \in Programs(n) :
                 /\ parser.tokens = g.tokens \o <<EofToken>>
                 /\ parser.value = g.stmts

\* C4: parse of a finite Eof-terminated token sequence terminates: no production calls
\* itself again without the cursor having advanced (no unbounded recursion), statements
\* with `=` or a `(` argument list included.
C4_ParseTerminates ==
    (ParserDone("parse") /\ parser.tokens # <<>>
       /\ parser.tokens[Len(parser.tokens)] = EofToken)
        => ~(parser.result = "Abort" /\ parser.error.kind = "StackOverflow")

\* C5: parse of two malformed statements separated by a well-formed one fails and
\* reports exactly two errors to the caller, one per malformed statement.
C5_TwoErrorsReported ==
    (ParserDone("parse") /\ parser.tokens \in TwoErrorTokens)
        => /\ parser.result = "Err"
           /\ Len(ReportedErrors(parser)) = 2

\* C6: expression on the tokens of `1 + 2 * 3` succeeds with the `+` node at the root,
\* its left operand 1 and its right operand the `*` node over 2 and 3.
C6_FactorBindsTighter ==
    (ParserDone("expression") /\ parser.tokens = TermFactorTokens)
        => /\ parser.result = "Ok"
           /\ parser.value.tag = "Term"
           /\ parser.value.operator = Punct("Plus")
           /\ "left" \in DOMAIN parser.value
           /\ parser.value.left = LiteralExpr("Number", "1")
           /\ parser.value.right.tag = "Factor"
           /\ parser.value.right.operator = Punct("Star")
           /\ "left" \in DOMAIN parser.value.right
           /\ parser.value.right.left = LiteralExpr("Number", "2")
           /\ parser.value.right.right = LiteralExpr("Number", "3")

\* C7: parsing the tokens of `1 = 2;`, whose left-hand side is neither a Variable nor a
\* Get, fails with the invalid-assignment-target error.
C7_InvalidAssignmentTarget ==
    (parser.pc = "done" /\ parser.tokens = LiteralAssignTokens)
        => /\ parser.result = "Err"
           /\ parser.error.kind = "InvalidArgumentTarget"

\* the node a primary token parses to
PrimaryNode(primary) ==
    IF primary.value = "Identifier"
    THEN [tag |-> "Variable", name |-> primary]
    ELSE [tag |-> "Literal", kind |-> primary.value, payload |-> primary.payload]

\* k left-nested Get nodes over object, one per name, the first name innermost
RECURSIVE LeftNested(_, _)
LeftNested(object, names) ==
    IF names = <<>> THEN object
    ELSE LeftNested([tag |-> "Get", name |-> Ident(names[1]), object |-> object],
                    Tail(names))

\* C8: expression_statement on a primary followed by k `.name` accesses and `;` yields
\* Expression over k left-nested Get nodes whose innermost object is the primary;
\* a . b . c ; yields Expression(Get(Get(Variable(a), b), c)).
C8_LeftNestedGets ==
    \A primary \in AccessPrimaries : \A names \in AccessNames :
        (ParserDone("expression_statement")
           /\ parser.tokens = AccessTokens(primary, names))
            => /\ parser.result = "Ok"
               /\ parser.value =
                     [tag |-> "Expression",
                      expr |-> LeftNested(PrimaryNode(primary), names)]

C8_Witness ==
    /\ ParserDone("expression_statement")
    /\ parser.tokens = AccessTokens(Ident("a"), <<"b", "c">>)
    /\ parser.result = "Ok"
    /\ parser.value.expr.tag = "Get"
    /\ parser.value.expr.name = Ident("c")
    /\ parser.value.expr.object.tag = "Get"
    /\ parser.value.expr.object.name = Ident("b")
    /\ parser.value.expr.object.object = [tag |-> "Variable", name |-> Ident("a")]

(***************************************************************************)
(* Properties of the scanner: numbers, identifiers, strings                *)
(***************************************************************************)
\* the scan of the whole source has ended
ScanDone == scanner.pc = "done"

\* what may stand before and after a lexeme without touching it
Padding == {<<>>, <<" ">>}

\* the source is pre \o text \o post for some padding pre and post
Padded(text) == \E pre \in Padding, post \in Padding : scanner.chars = pre \o text \o post

\* the pieces of the source: every text cut out of it
Pieces == {SubSeq(scanner.chars, i, j) : i \in 1..Len(scanner.chars), j \in 1..Len(scanner.chars)}

IsDigitRun(text) == Len(text) >= 1 /\ \A i \in 1..Len(text) : IsDigit(text[i])

IsLetterRun(text) == Len(text) >= 1 /\ \A i \in 1..Len(text) : IsAlphabetic(text[i])

\* DIGIT+ ( "." DIGIT+ )?
IsNumberText(text) ==
    \/ IsDigitRun(text)
    \/ \E k \in 2..(Len(text) - 1) :
          /\ text[k] = "."
          /\ IsDigitRun(SubSeq(text, 1, k - 1))
          /\ IsDigitRun(SubSeq(text, k + 1, Len(text)))

\* C11: a maximal run of digits, optionally followed by `.` and digits, is scanned into
\* exactly one Number token whose lexeme is the whole run and whose value is its
\* numeric value, also when the run ends at the end of the input.
C11_NumberScanned ==
    \A text \in Pieces :
        (ScanDone /\ IsNumberText(text) /\ Padded(text))
            => /\ scanner.result = "ok"
               /\ TokenTypes(scanner.tokens) = <<"Number", "Eof">>
               /\ scanner.tokens[1].lexeme = text
               /\ IsDigitRun(text) => scanner.tokens[1].literal.number = ParseI64(text)

\* ( ALPHA | "_" ) ( ALPHA | DIGIT | "_" )*
IsWord(text) ==
    /\ Len(text) >= 1
    /\ IsAlphabetic(text[1]) \/ text[1] = "_"
    /\ \A i \in 1..Len(text) : IsAlphabetic(text[i]) \/ IsDigit(text[i]) \/ text[i] = "_"

\* the kinds a word may be given: its keyword when the text is a keyword, otherwise
\* Identifier (a text that differs from a keyword only in case may be either)
WordKinds(text) ==
    IF \E k \in Keywords : k.text = text
    THEN {k.token_type : k \in {x \in Keywords : x.text = text}}
    ELSE {"Identifier"} \cup {k.token_type : k \in {x \in Keywords : x.text = ToLowercase(text)}}

\* C12: a maximal run of letters, digits and `_` that starts with a letter or `_` is
\* scanned into exactly one token, keyword or Identifier, whose lexeme is the whole run
\* in its original case, also at the end of the input.
C12_WordScanned ==
    \A text \in Pieces :
        (ScanDone /\ IsWord(text) /\ Padded(text))
            => /\ scanner.result = "ok"
               /\ Len(scanner.tokens) = 2
               /\ scanner.tokens[1].token_type \in WordKinds(text)
               /\ scanner.tokens[1].lexeme = text

\* the source is a string literal: an opening quote, a body without quote, and either
\* the closing quote followed by padding (closed) or the end of the input
IsStringBody(text) == \A i \in 1..Len(text) : text[i] # "\""

\* C13: a string literal fails with "Unterminated string" exactly when the input ends
\* before a closing quote; with the closing quote present, also as the last character,
\* the scan yields a String token whose value is the text between the quotes.
C13_StringScanned ==
    \A text \in Pieces \cup {<<>>} :
        (ScanDone /\ IsStringBody(text))
            => /\ scanner.chars = <<"\"">> \o text
                    => /\ scanner.result = "err"
                       /\ scanner.message = "Unterminated string"
               /\ (\E post \in Padding : scanner.chars = <<"\"">> \o text \o <<"\"">> \o post)
                    => /\ scanner.result = "ok"
                       /\ TokenTypes(scanner.tokens) = <<"String", "Eof">>
                       /\ scanner.tokens[1].literal = StringLiteral(text)

\* C17: the character that ends a run of digits (of letters) is not consumed by the run:
\* it is scanned by its own rule, also when it is the last character of the input, so a
\* run followed by a one-character token t yields the run's token, t's token and Eof.
C17_TerminatorKept ==
    \A text \in Pieces : \A t \in SingleCharTokens :
        (ScanDone /\ (IsDigitRun(text) \/ IsLetterRun(text))
           /\ \E post \in Padding : scanner.chars = text \o <<t.ch>> \o post)
            => /\ scanner.result = "ok"
               /\ Len(scanner.tokens) = 3
               /\ scanner.tokens[2].token_type = t.token_type
               /\ scanner.tokens[3].token_type = "Eof"

(***************************************************************************)
(* Properties of the scanner: line numbers                                 *)
(***************************************************************************)
\* the number of line breaks among the first n characters of the source
NewlinesBefore(chars, n) == Cardinality({k \in 1..n : chars[k] = "\n"})

\* C14: the line of every token is 1 plus the number of newline characters that
\* precede its first character in the source, also for a token that follows a
\* `//` comment line (Eof, which has no first character, is left out).
C14_TokenLines ==
    \A i \in 1..Len(scanner.tokens) :
        scanner.tokens[i].token_type # "Eof"
            => scanner.tokens[i].line = 1 + NewlinesBefore(scanner.chars, scanner.starts[i])

(***************************************************************************)
(* Specification SpecLexeme: scan a source, then scan one token's lexeme   *)
(***************************************************************************)
\* no second Scanner has been constructed
IdleScanner == [NewScanner(<<>>) EXCEPT !.pc = "idle"]

InitLexeme ==
    /\ scanner \in {NewScanner(source) : source \in Sources}
    /\ rescan = IdleScanner
    /\ parser = IdleParser

\* Scanner::new on the lexeme of a token, other than Eof, of a successful scan
RescanLexeme ==
    /\ scanner.pc = "done"
    /\ scanner.result = "ok"
    /\ rescan.pc = "idle"
    /\ \E i \in 1..Len(scanner.tokens) :
          /\ scanner.tokens[i].token_type # "Eof"
          /\ rescan' = NewScanner(scanner.tokens[i].lexeme)
    /\ UNCHANGED <<scanner, parser>>

NextLexeme ==
    ScanTokenStep \/ ScanTokensReturn \/ RescanLexeme \/ RescanTokenStep \/ RescanTokensReturn

SpecLexeme == InitLexeme /\ [][NextLexeme]_vars

\* C15: for every token t other than Eof of a successful scan, the scan of t's lexeme
\* alone succeeds and its first token has the kind of t.
C15_LexemeRescans ==
    (scanner.pc = "done" /\ rescan.pc = "done")
        => \A i \in 1..Len(scanner.tokens) :
              (scanner.tokens[i].token_type # "Eof" /\ scanner.tokens[i].lexeme = rescan.chars)
                  => /\ rescan.result = "ok"
                     /\ rescan.tokens[1].token_type = scanner.tokens[i].token_type

(***************************************************************************)
(* Properties of the parser: recovery after an error                       *)
(***************************************************************************)
\* a `;` lies after the token the parser stands on
SemicolonAhead(p) ==
    \E j \in (p.position + 2)..Len(p.tokens) : p.tokens[j].value = "Semicolon"

\* the parser stands just past a `;`, or on a `;` that the advance of the next
\* declaration steps over
AtStatementBoundary(p) ==
    \/ p.position >= 1 /\ p.tokens[p.position].value = "Semicolon"
    \/ ParserCurrent(p).value = "Semicolon"

\* C16: when an iteration of parse records an error and the loop goes on, the parser
\* has discarded the tokens up to the next `;` and resumes at that statement boundary:
\* it never resumes short of a `;` that still lies ahead, inside the failed statement.
C16_ResumesAtBoundary ==
    [][(/\ parser.pc = "loop"
        /\ parser'.pc = "loop"
        /\ Len(parser'.errors) = Len(parser.errors) + 1
        /\ SemicolonAhead(parser'))
            => AtStatementBoundary(parser')]_vars

====
